---- MODULE Spec2Model ----
(***************************************************************************)
(* A model of scripts/create_tag.py: the computation of the next           *)
(* semantic-version tag of a repository and its publication.               *)
(*                                                                         *)
(* A Python str is modelled as a sequence of one-character strings, so     *)
(* that stripping, matching, splitting, formatting and parsing are         *)
(* computed character by character, as the code computes them.             *)
(***************************************************************************)
EXTENDS Integers, Sequences, FiniteSets, TLC

\* ------------------------------------------------------------- characters

Digits == <<"0", "1", "2", "3", "4", "5", "6", "7", "8", "9">>

LowerCase ==
    <<"a", "b", "c", "d", "e", "f", "g", "h", "i", "j", "k", "l", "m",
      "n", "o", "p", "q", "r", "s", "t", "u", "v", "w", "x", "y", "z">>

UpperCase ==
    <<"A", "B", "C", "D", "E", "F", "G", "H", "I", "J", "K", "L", "M",
      "N", "O", "P", "Q", "R", "S", "T", "U", "V", "W", "X", "Y", "Z">>

Range(f) == {f[i] : i \in DOMAIN f}

DigitSet == Range(Digits)

LetterSet == Range(LowerCase) \cup Range(UpperCase)

\* str.strip() with no argument removes whitespace.
SpaceSet == {" ", "\t", "\n"}

\* The class [0-9A-Za-z.-] of the regular expression.
PreCharSet == DigitSet \cup LetterSet \cup {".", "-"}

\* The class [-.] of the regular expression.
SepSet == {"-", "."}

\* Python's None, told apart from every str (no str holds a character "None").
None == <<"None">>

\* ---------------------------------------------------------------- str

\* s[i:] with i a 1-based position.
From(s, i) == SubSeq(s, i, Len(s))

\* The first position from i on whose character is not in C (Len(s)+1 if none):
\* the end of a greedy run [C]* matched at i.
RunEnd(s, i, C) ==
    CHOOSE j \in i..(Len(s) + 1) :
        /\ \A k \in i..(j - 1) : s[k] \in C
        /\ j = Len(s) + 1 \/ s[j] \notin C

\* The last position up to which s, read backwards from its end, is in C.
RunStartFromEnd(s, C) ==
    CHOOSE j \in 0..Len(s) :
        /\ \A k \in (j + 1)..Len(s) : s[k] \in C
        /\ j = 0 \/ s[j] \notin C

\* str.lstrip(chars)
lstrip(s, C) == From(s, RunEnd(s, 1, C))

\* str.strip()
strip(s) ==
    LET t == lstrip(s, SpaceSet)
    IN  SubSeq(t, 1, RunStartFromEnd(t, SpaceSet))

\* str.startswith(p)
startswith(s, p) == Len(s) >= Len(p) /\ SubSeq(s, 1, Len(p)) = p

\* p in s, for two strs
Contains(s, p) ==
    \E i \in 1..(Len(s) + 1) :
        i + Len(p) - 1 <= Len(s) /\ SubSeq(s, i, i + Len(p) - 1) = p

\* str.lower()
LowerChar(c) ==
    IF c \in Range(UpperCase)
    THEN LowerCase[CHOOSE i \in 1..26 : UpperCase[i] = c]
    ELSE c

lower(s) == [i \in 1..Len(s) |-> LowerChar(s[i])]

\* str.isdigit()
isdigit(s) == s # <<>> /\ \A i \in 1..Len(s) : s[i] \in DigitSet

DigitVal(c) == (CHOOSE i \in 1..10 : Digits[i] = c) - 1

\* int(s) of a str of decimal digits
RECURSIVE int(_)
int(s) ==
    IF s = <<>> THEN 0
    ELSE 10 * int(SubSeq(s, 1, Len(s) - 1)) + DigitVal(s[Len(s)])

\* str(n) of a non-negative integer
RECURSIVE str(_)
str(n) ==
    IF n < 10 THEN <<Digits[n + 1]>>
    ELSE str(n \div 10) \o <<Digits[(n % 10) + 1]>>

\* The first position of character c in s (Len(s)+1 if there is none).
Find(s, c) ==
    CHOOSE j \in 1..(Len(s) + 1) :
        /\ \A k \in 1..(j - 1) : s[k] # c
        /\ j = Len(s) + 1 \/ s[j] = c

\* s.split('.')
RECURSIVE split(_)
split(s) ==
    LET e == Find(s, ".")
    IN  IF e > Len(s) THEN <<s>>
        ELSE <<SubSeq(s, 1, e - 1)>> \o split(From(s, e + 1))

\* '.'.join(parts)
RECURSIVE join(_)
join(parts) ==
    IF Len(parts) = 0 THEN <<>>
    ELSE IF Len(parts) = 1 THEN parts[1]
    ELSE parts[1] \o <<".">> \o join(Tail(parts))

\* ------------------------------------------------- the regular expression

\* re.match(r"(\d+)\.(\d+)\.(\d+)(?:[-.]?([0-9A-Za-z.-]+))?", s): anchored at the
\* start only.  Every \d+ is greedy and must be followed by a dot (or, for the
\* third, by anything), so each takes its maximal run.  The optional group first
\* tries [-.] consumed and then one or more class characters, then [-.] not
\* consumed, then no group at all.
ReMatch(s) ==
    LET e1 == RunEnd(s, 1, DigitSet)
        e2 == RunEnd(s, e1 + 1, DigitSet)
        e3 == RunEnd(s, e2 + 1, DigitSet)
        ok == /\ e1 > 1
              /\ e1 <= Len(s) /\ s[e1] = "."
              /\ e2 > e1 + 1
              /\ e2 <= Len(s) /\ s[e2] = "."
              /\ e3 > e2 + 1
        pre == IF /\ e3 + 1 <= Len(s)
                  /\ s[e3] \in SepSet
                  /\ s[e3 + 1] \in PreCharSet
               THEN SubSeq(s, e3 + 1, RunEnd(s, e3 + 1, PreCharSet) - 1)
               ELSE IF e3 <= Len(s) /\ s[e3] \in PreCharSet
               THEN SubSeq(s, e3, RunEnd(s, e3, PreCharSet) - 1)
               ELSE None
    IN  IF ok
        THEN [matched |-> TRUE,
              major |-> SubSeq(s, 1, e1 - 1),
              minor |-> SubSeq(s, e1 + 1, e2 - 1),
              patch |-> SubSeq(s, e2 + 1, e3 - 1),
              pre |-> pre]
        ELSE [matched |-> FALSE]

\* f"v{base}-{pre}" if pre else f"v{base}", base = f"{major}.{minor}.{patch}"
FormatTag(major, minor, patch, pre) ==
    LET base == str(major) \o <<".">> \o str(minor) \o <<".">> \o str(patch)
    IN  IF pre # None /\ pre # <<>>
        THEN <<"v">> \o base \o <<"-">> \o pre
        ELSE <<"v">> \o base

RefsTags == <<"r", "e", "f", "s", "/", "t", "a", "g", "s", "/">>

\* coerce_tag_name removing one leading 'v' where the code removes them all.
coerce_tag_name_OneV(raw) ==
    LET tag0 == strip(raw)
        tag == IF startswith(tag0, RefsTags) THEN From(tag0, Len(RefsTags) + 1)
               ELSE tag0
        tag_no_v == IF startswith(tag, <<"v">>) THEN Tail(tag) ELSE tag
        m == ReMatch(tag_no_v)
    IN  IF ~m.matched THEN None
        ELSE FormatTag(int(m.major), int(m.minor), int(m.patch), m.pre)

coerce_tag_name(raw) ==
    LET tag0 == strip(raw)
        tag == IF startswith(tag0, RefsTags) THEN From(tag0, Len(RefsTags) + 1)
               ELSE tag0
        tag_no_v == lstrip(tag, {"v"})
        m == ReMatch(tag_no_v)
    IN  IF ~m.matched THEN None
        ELSE FormatTag(int(m.major), int(m.minor), int(m.patch), m.pre)

\* ------------------------------------------- packaging.version (library)
\* packaging_version.parse(s) and the order of what it returns, for the strs the
\* code hands it: a normalised tag without its leading "v".  A str that is a
\* PEP 440 version gives a Version.  Any other str gives a LegacyVersion with
\* packaging < 22 and raises InvalidVersion with packaging >= 22; the
\* repository pins no release of the library.

\* Lexicographic order of two sequences of integers (Python's tuple order).
RECURSIVE IntSeqLess(_, _)
IntSeqLess(a, b) ==
    IF b = <<>> THEN FALSE
    ELSE IF a = <<>> THEN TRUE
    ELSE IF Head(a) # Head(b) THEN Head(a) < Head(b)
    ELSE IntSeqLess(Tail(a), Tail(b))

\* The separators [-_\.] of the PEP 440 pattern.
Sep440 == {"-", "_", "."}

MatchWordAt(s, i, w) ==
    i + Len(w) - 1 <= Len(s) /\ SubSeq(s, i, i + Len(w) - 1) = w

\* The position after an optional leading separator [-_\.]? of r.
AfterSep(r) == IF r # <<>> /\ r[1] \in Sep440 THEN 2 ELSE 1

\* The ways "[-_\.]?([0-9]+)?" matches at position i of r, in the order the
\* regular expression tries them: separator and digits, separator alone, digits
\* alone, nothing.  A missing number counts as 0.
NumOpts(r, i) ==
    LET sep == i <= Len(r) /\ r[i] \in Sep440
        e1 == RunEnd(r, i + 1, DigitSet)
        e0 == RunEnd(r, i, DigitSet)
    IN  (IF sep /\ i + 1 <= Len(r) /\ r[i + 1] \in DigitSet
         THEN <<[n |-> int(SubSeq(r, i + 1, e1 - 1)), next |-> e1]>> ELSE <<>>)
        \o (IF sep THEN <<[n |-> 0, next |-> i + 1]>> ELSE <<>>)
        \o (IF i <= Len(r) /\ r[i] \in DigitSet
            THEN <<[n |-> int(SubSeq(r, i, e0 - 1)), next |-> e0]>> ELSE <<>>)
        \o <<[n |-> 0, next |-> i]>>

\* The first element of a sequence of attempts that succeeded.
FirstOk(cands) ==
    LET good == {i \in DOMAIN cands : cands[i].ok}
    IN  IF good = {} THEN [ok |-> FALSE]
        ELSE cands[CHOOSE i \in good : \A j \in good : i <= j]

\* Every attempt of one word w at position i of r, continued by Cont.
WordAttempts(r, i, w, val, Cont(_, _, _)) ==
    IF MatchWordAt(r, i, w)
    THEN LET opts == NumOpts(r, i + Len(w))
         IN  [k \in DOMAIN opts |-> Cont(val, opts[k].n, From(r, opts[k].next))]
    ELSE <<>>

W_dev == <<"d", "e", "v">>

\* (?P<dev>[-_\.]?(?P<dev_l>dev)[-_\.]?(?P<dev_n>[0-9]+)?)? and then the end
\* of the str (the local segment starts with "+", which no label holds).
DevEnd(val, n, rest) ==
    [ok |-> rest = <<>>, dev |-> <<0, n>>]

DevParse(r) ==
    IF r = <<>> THEN [ok |-> TRUE, dev |-> <<1, 0>>]
    ELSE FirstOk(WordAttempts(r, AfterSep(r), W_dev, 0, DevEnd))

PostWords == << <<"p", "o", "s", "t">>, <<"r", "e", "v">>, <<"r">> >>

PostThenDev(val, n, rest) ==
    LET With(d) == IF d.ok THEN [ok |-> TRUE, post |-> <<1, n>>, dev |-> d.dev]
                   ELSE [ok |-> FALSE]
    IN  With(DevParse(rest))

\* (?P<post>(?:-(?P<post_n1>[0-9]+))|(?:[-_\.]?(?P<post_l>post|rev|r)[-_\.]?
\* (?P<post_n2>[0-9]+)?))? and then the dev segment.
PostParse(r) ==
    LET e == RunEnd(r, 2, DigitSet)
        dash == IF Len(r) >= 2 /\ r[1] = "-" /\ r[2] \in DigitSet
                THEN <<PostThenDev(0, int(SubSeq(r, 2, e - 1)), From(r, e))>>
                ELSE <<>>
        i == AfterSep(r)
        NoPost(d) == IF d.ok THEN [ok |-> TRUE, post |-> <<0, 0>>, dev |-> d.dev]
                     ELSE [ok |-> FALSE]
    IN  FirstOk(dash
                \o WordAttempts(r, i, PostWords[1], 0, PostThenDev)
                \o WordAttempts(r, i, PostWords[2], 0, PostThenDev)
                \o WordAttempts(r, i, PostWords[3], 0, PostThenDev)
                \o <<NoPost(DevParse(r))>>)

\* The pre-release words in the order of the pattern's alternation, with the
\* rank of the letter each is normalised to: a < b < rc.
PreWords ==
    << [w |-> <<"a">>, rank |-> 1],
       [w |-> <<"b">>, rank |-> 2],
       [w |-> <<"c">>, rank |-> 3],
       [w |-> <<"r", "c">>, rank |-> 3],
       [w |-> <<"a", "l", "p", "h", "a">>, rank |-> 1],
       [w |-> <<"b", "e", "t", "a">>, rank |-> 2],
       [w |-> <<"p", "r", "e">>, rank |-> 3],
       [w |-> <<"p", "r", "e", "v", "i", "e", "w">>, rank |-> 3] >>

PreThenPost(val, n, rest) ==
    LET With(q) ==
            IF q.ok
            THEN [ok |-> TRUE, pre |-> <<val, n>>, post |-> q.post, dev |-> q.dev]
            ELSE [ok |-> FALSE]
    IN  With(PostParse(rest))

RECURSIVE PreAttempts(_, _, _)
PreAttempts(r, i, k) ==
    IF k > Len(PreWords) THEN <<>>
    ELSE WordAttempts(r, i, PreWords[k].w, PreWords[k].rank, PreThenPost)
         \o PreAttempts(r, i, k + 1)

\* (?P<pre>[-_\.]?(?P<pre_l>(a|b|c|rc|alpha|beta|pre|preview))[-_\.]?
\* (?P<pre_n>[0-9]+)?)? and then the post and dev segments.  Version._key puts
\* a version with no pre segment after every pre-release (rank 4), unless it
\* has a dev segment and no post segment, which puts it before them (rank 0).
SuffixParse(r) ==
    LET NoPre(q) ==
            IF q.ok
            THEN [ok |-> TRUE, pre |-> <<4, 0>>, post |-> q.post, dev |-> q.dev]
            ELSE [ok |-> FALSE]
        Keyed(got) ==
            IF got.ok /\ got.pre[1] = 4 /\ got.post[1] = 0 /\ got.dev[1] = 0
            THEN [got EXCEPT !.pre = <<0, 0>>]
            ELSE got
    IN  Keyed(FirstOk(PreAttempts(r, AfterSep(r), 1) \o <<NoPre(PostParse(r))>>))

\* The end of the release segment [0-9]+(?:\.[0-9]+)* matched at position i.
RECURSIVE ReleaseEnd(_, _)
ReleaseEnd(s, i) ==
    LET e == RunEnd(s, i, DigitSet)
    IN  IF e > i /\ e + 1 <= Len(s) /\ s[e] = "." /\ s[e + 1] \in DigitSet
        THEN ReleaseEnd(s, e + 1)
        ELSE e

RECURSIVE IntsOf(_)
IntsOf(parts) ==
    IF parts = <<>> THEN <<>> ELSE <<int(Head(parts))>> \o IntsOf(Tail(parts))

\* The release with its trailing zeros removed, as Version._key compares it.
RECURSIVE StripZeros(_)
StripZeros(rel) ==
    IF rel # <<>> /\ rel[Len(rel)] = 0
    THEN StripZeros(SubSeq(rel, 1, Len(rel) - 1))
    ELSE rel

\* Version(s)._key for a str that starts with a digit, or no match.
Pep440(s0) ==
    LET Matched(s, e, suf) ==
            IF s # <<>> /\ s[1] \in DigitSet /\ suf.ok
            THEN [ok |-> TRUE,
                  release |-> StripZeros(IntsOf(split(SubSeq(s, 1, e - 1)))),
                  rest |-> suf.pre \o suf.post \o suf.dev]
            ELSE [ok |-> FALSE]
        Suffix(s, e) == Matched(s, e, SuffixParse(From(s, e)))
        Release(s) == Suffix(s, ReleaseEnd(s, 1))
    IN  Release(lower(strip(s0)))

\* The characters of the model in code-point order: the order of Python strs.
CodeOrder ==
    <<"\t", "\n", " ", "*", "+", "-", ".", "/">> \o Digits \o <<"=", "@">>
    \o UpperCase \o <<"_">> \o LowerCase

Ord(c) == CHOOSE i \in DOMAIN CodeOrder : CodeOrder[i] = c

\* a < b for two strs
RECURSIVE StrLess(_, _)
StrLess(a, b) ==
    IF b = <<>> THEN FALSE
    ELSE IF a = <<>> THEN TRUE
    ELSE IF Head(a) # Head(b) THEN Ord(Head(a)) < Ord(Head(b))
    ELSE StrLess(Tail(a), Tail(b))

\* a < b for two tuples of strs
RECURSIVE StrSeqLess(_, _)
StrSeqLess(a, b) ==
    IF b = <<>> THEN FALSE
    ELSE IF a = <<>> THEN TRUE
    ELSE IF Head(a) # Head(b) THEN StrLess(Head(a), Head(b))
    ELSE StrSeqLess(Tail(a), Tail(b))

\* _legacy_version_component_re.split(s), r"(\d+ | [a-z]+ | \.| -)", without
\* the empty strs: runs of digits, runs of lower-case letters, single "." and
\* "-", and the text between them.
RECURSIVE LegacySplit(_)
LegacySplit(s) ==
    LET lows == Range(LowerCase)
        e == IF s[1] \in DigitSet THEN RunEnd(s, 1, DigitSet)
             ELSE IF s[1] \in lows THEN RunEnd(s, 1, lows)
             ELSE IF s[1] \in {".", "-"} THEN 2
             ELSE RunEnd(s, 1, Range(CodeOrder) \ (DigitSet \cup lows \cup {".", "-"}))
    IN  IF s = <<>> THEN <<>>
        ELSE <<SubSeq(s, 1, e - 1)>> \o LegacySplit(From(s, e))

W_final == <<"f", "i", "n", "a", "l">>

\* _legacy_version_replacement_map
LegacyReplace(part) ==
    IF part \in {<<"p", "r", "e">>, <<"p", "r", "e", "v", "i", "e", "w">>,
                 <<"r", "c">>}
    THEN <<"c">>
    ELSE IF part = <<"-">> THEN W_final \o <<"-">>
    ELSE IF part = W_dev THEN <<"@">>
    ELSE part

\* str.zfill(8)
zfill8(part) ==
    IF Len(part) >= 8 THEN part
    ELSE [i \in 1..(8 - Len(part)) |-> "0"] \o part

\* _parse_version_parts(s), before its closing "*final"
RECURSIVE LegacyParts(_)
LegacyParts(tokens) ==
    IF tokens = <<>> THEN <<>>
    ELSE LET part == LegacyReplace(Head(tokens))
         IN  (IF part = <<".">> THEN <<>>
              ELSE IF part[1] \in DigitSet THEN <<zfill8(part)>>
              ELSE <<<<"*">> \o part>>)
             \o LegacyParts(Tail(tokens))

\* parts with every trailing element equal to x removed
RECURSIVE PopWhile(_, _)
PopWhile(parts, x) ==
    IF parts # <<>> /\ parts[Len(parts)] = x
    THEN PopWhile(SubSeq(parts, 1, Len(parts) - 1), x)
    ELSE parts

\* The loop of _legacy_cmpkey over the parts still to come.
RECURSIVE LegacyFold(_, _)
LegacyFold(parts, todo) ==
    IF todo = <<>> THEN parts
    ELSE LET part == Head(todo)
             star == <<"*">> \o W_final
             p1 == IF part[1] = "*" /\ StrLess(part, star)
                   THEN PopWhile(parts, star \o <<"-">>) ELSE parts
             p2 == IF part[1] = "*" THEN PopWhile(p1, zfill8(<<"0">>)) ELSE p1
         IN  LegacyFold(Append(p2, part), Tail(todo))

\* LegacyVersion(s)._key[1]
legacy_cmpkey(s) ==
    LegacyFold(<<>>, LegacyParts(LegacySplit(lower(s))) \o <<<<"*">> \o W_final>>)

\* packaging_version.parse(s): a Version, a LegacyVersion, or InvalidVersion
\* raised.  legacy tells whether the installed library still has LegacyVersion.
parse(s, is_legacy) ==
    LET Made(v) ==
            IF v.ok
            THEN [kind |-> "Version", release |-> v.release, rest |-> v.rest]
            ELSE IF is_legacy
            THEN [kind |-> "LegacyVersion", parts |-> legacy_cmpkey(s)]
            ELSE [kind |-> "InvalidVersion"]
    IN  Made(Pep440(s))

\* a < b for two parsed versions: _BaseVersion.__lt__ compares the _key
\* tuples, whose first element is the epoch, -1 for every LegacyVersion and 0
\* for every Version the code can build.
KeyLess(a, b) ==
    IF a.kind = "LegacyVersion" /\ b.kind = "LegacyVersion"
    THEN StrSeqLess(a.parts, b.parts)
    ELSE IF a.kind = "LegacyVersion" THEN TRUE
    ELSE IF b.kind = "LegacyVersion" THEN FALSE
    ELSE IF a.release # b.release THEN IntSeqLess(a.release, b.release)
    ELSE IntSeqLess(a.rest, b.rest)

\* ---------------------------------------------------------- the helpers

\* The str literals of the code.
S_major == <<"m", "a", "j", "o", "r">>

S_minor == <<"m", "i", "n", "o", "r">>

S_patch == <<"p", "a", "t", "c", "h">>

S_prerelease ==
    <<"p", "r", "e", "r", "e", "l", "e", "a", "s", "e">>

S_true == <<"t", "r", "u", "e">>

S_false == <<"f", "a", "l", "s", "e">>

S_True == <<"T", "r", "u", "e">>

S_False == <<"F", "a", "l", "s", "e">>

S_beta == <<"b", "e", "t", "a">>

DASH == <<"-">>

DOT1 == <<".", "1">>

V123 == <<"v", "1", ".", "2", ".", "3">>

V100 == <<"v", "1", ".", "0", ".", "0">>

V200 == <<"v", "2", ".", "0", ".", "0">>

V153 == <<"v", "1", ".", "5", ".", "3">>

V999 == <<"v", "9", ".", "9", ".", "9">>

BLANK20 == <<" ", "2", ".", "0", " ">>

BLANKTRUE == <<" ", "T", "r", "u", "e">>

LEADZERO == <<"0", "1", ".", "0", "2", ".", "0", "3">>

\* What a call gives: a value returned, or an exception raised.
Return(v) == [raised |-> FALSE, value |-> v]

Raise(exc, msg) == [raised |-> TRUE, exc |-> exc, msg |-> msg]

\* The prerelease branch of increment_semver: the new label and patch.
BumpPrerelease(patch, pre, prerelease, prerelease_identifier) ==
    IF pre # None /\ pre # <<>> /\ Contains(pre, prerelease_identifier)
    THEN LET parts == split(pre)
             last == parts[Len(parts)]
             parts1 == IF isdigit(last)
                       THEN [parts EXCEPT ![Len(parts)] = str(int(last) + 1)]
                       ELSE Append(parts, <<"1">>)
         IN  [patch |-> patch, pre |-> join(parts1)]
    ELSE IF prerelease
    THEN [patch |-> patch, pre |-> prerelease_identifier \o <<".", "1">>]
    ELSE [patch |-> patch + 1, pre |-> None]

increment_semver(current, bump, prerelease, prerelease_identifier, is_legacy) ==
    LET cur == lstrip(current, {"v"})
        parsed == parse(cur, is_legacy)
        m == ReMatch(cur)
        major == int(m.major)
        minor == int(m.minor)
        patch == int(m.patch)
        p == BumpPrerelease(patch, m.pre, prerelease, prerelease_identifier)
    IN  IF parsed.kind = "InvalidVersion"
        THEN Raise("InvalidVersion", "Invalid version")
        ELSE IF ~m.matched
        THEN Raise("ValueError", "Invalid semantic version")
        ELSE IF bump = S_major THEN Return(FormatTag(major + 1, 0, 0, None))
        ELSE IF bump = S_minor THEN Return(FormatTag(major, minor + 1, 0, None))
        ELSE IF bump = S_patch THEN Return(FormatTag(major, minor, patch + 1, None))
        ELSE IF bump = S_prerelease
        THEN Return(FormatTag(major, minor, p.patch, p.pre))
        ELSE Return(FormatTag(major, minor, patch + 1, None))

\* The sort key of a tag: packaging_version.parse(t.lstrip('v')).
key(t, is_legacy) == parse(lstrip(t, {"v"}), is_legacy)

\* s without its element at position i
RemoveAt(s, i) == SubSeq(s, 1, i - 1) \o SubSeq(s, i + 1, Len(s))

\* sorted(tags, key=key, reverse=True) when no key raises: a stable sort, so
\* the next element is the first of those whose key no other key exceeds.
\* The position of the first of the greatest keys of k.
Top(k) ==
    CHOOSE i \in DOMAIN k :
        /\ \A j \in DOMAIN k : ~KeyLess(k[i], k[j])
        /\ \A j \in 1..(i - 1) : KeyLess(k[j], k[i])

RECURSIVE SortedDesc(_, _)
SortedDesc(tags, k) ==
    IF tags = <<>> THEN <<>>
    ELSE LET Rest(top) ==
                 <<tags[top]>> \o SortedDesc(RemoveAt(tags, top), RemoveAt(k, top))
         IN  Rest(Top(k))

sort_versions_desc(tags, is_legacy) ==
    LET Sorted(k) ==
            IF \E i \in DOMAIN k : k[i].kind = "InvalidVersion"
            THEN Raise("InvalidVersion", "Invalid version")
            ELSE Return(SortedDesc(tags, k))
    IN  Sorted([i \in DOMAIN tags |-> key(tags[i], is_legacy)])

\* The cap of fetch_all_repo_tags on the coerced tags when fetch_all is false.
TagCap == 100

\* The loop of fetch_all_repo_tags over the names repo.get_tags() yields.
RECURSIVE FetchLoop(_, _, _)
FetchLoop(names, tags, fetch_all) ==
    IF names = <<>> THEN tags
    ELSE LET coerced == coerce_tag_name(Head(names))
             tags1 == IF coerced # None THEN Append(tags, coerced) ELSE tags
         IN  IF ~fetch_all /\ Len(tags1) >= TagCap THEN tags1
             ELSE FetchLoop(Tail(names), tags1, fetch_all)

fetch_all_repo_tags(names, fetch_all) == FetchLoop(names, <<>>, fetch_all)

FirstTag == <<"v", "1", ".", "0", ".", "0">>

determine_new_tag(existing_tags, bump, identifier, flag, is_legacy) ==
    LET Latest(sorted) ==
            IF sorted.raised THEN sorted
            ELSE increment_semver(sorted.value[1], bump, flag, identifier, is_legacy)
    IN  IF existing_tags = <<>> THEN Return(FirstTag)
        ELSE Latest(sort_versions_desc(existing_tags, is_legacy))

\* ------------------------------------------------------------- the state

VARIABLES
    env,            \* os.environ: the value of each variable read, None if unset
    legacy,         \* the installed packaging still has LegacyVersion (< 22)
    repo_tags,      \* the names of the tags of the remote repository
    pc,             \* where main() is
    new_tag,        \* main's local new_tag, None before lines 135-139
    base_tag,       \* new_tag as lines 135-139 left it (history)
    version_value,  \* main's local version_value, None before line 144
    log_lines,      \* what log() printed, in order
    output,         \* what this run appended to the GITHUB_OUTPUT file
    lister_calls,   \* how often this run asked the repository for its tags
    creator_calls,  \* the create_git_ref calls of this run, in order
    exit_status,    \* <<>> while running, <<0>> or <<1>> once the process ended
    runs,           \* how many runs of the action have begun
    fn_pc,          \* the step of a direct application of the helpers
    raw,            \* a raw tag name handed to coerce_tag_name
    rule,           \* the bump handed to increment_semver
    policy,         \* the prerelease identifier and flag handed to it
    normalized,     \* coerce_tag_name(raw)
    renormalized,   \* coerce_tag_name(normalized)
    incremented,    \* what increment_semver gave for normalized
    raws,           \* the names repo.get_tags() yields, in order
    tags,           \* fetch_all_repo_tags of raws
    sorted_tags,    \* what sort_versions_desc gave for tags
    sort_pc         \* the step of a direct application of fetch and sort

main_vars ==
    <<env, repo_tags, pc, new_tag, base_tag, version_value, log_lines, output,
      lister_calls, creator_calls, exit_status, runs>>

fn_vars == <<fn_pc, raw, rule, policy, normalized, renormalized, incremented>>

sort_vars == <<raws, tags, sorted_tags, sort_pc>>

vars == <<legacy, main_vars, fn_vars, sort_vars>>

\* ------------------------------------------------------- main(): inputs

\* os.getenv(name, default)
getenv(name, default) == IF env[name] = None THEN default ELSE env[name]

get_bool(env_name, default) ==
    LET val == lower(strip(getenv(env_name, IF default THEN S_True ELSE S_False)))
    IN  val \in {<<"1">>, S_true, <<"y", "e", "s">>, <<"o", "n">>}

user_tag == strip(getenv("INPUT_USER_TAG", <<>>))

default_bump == strip(getenv("INPUT_DEFAULT_BUMP", S_patch))

tag_suffix == strip(getenv("INPUT_TAG_SUFFIX", <<>>))

tag_prefix == strip(getenv("INPUT_TAG_PREFIX", <<>>))

prerelease_identifier_raw == strip(getenv("INPUT_PRERELEASEIDENTIFIER", S_true))

prerelease_flag ==
    IF lower(prerelease_identifier_raw) \in {S_true, S_false}
    THEN lower(prerelease_identifier_raw) = S_true
    ELSE TRUE

prerelease_identifier ==
    IF lower(prerelease_identifier_raw) \in {S_true, S_false}
    THEN S_prerelease
    ELSE prerelease_identifier_raw

github_token == env["INPUT_GITHUB_TOKEN"]

fetch_all_tags == get_bool("INPUT_FETCH_ALL_TAGS", FALSE)

is_dry_run == get_bool("INPUT_IS_DRY_RUN", FALSE)

repository == env["GITHUB_REPOSITORY"]

commit_sha == env["GITHUB_SHA"]

\* "not x" for an Optional[str]
Falsy(x) == x = None \/ x = <<>>

\* The ValueError of lines 126-131, if any.
ConfigError ==
    IF Falsy(github_token) THEN <<"GitHub token not provided">>
    ELSE IF Falsy(repository) THEN <<"GITHUB_REPOSITORY env var missing">>
    ELSE IF Falsy(commit_sha) THEN <<"GITHUB_SHA env var missing">>
    ELSE <<>>

\* ------------------------------------------------------ main(): the steps

Log(text, detail) == log_lines' = Append(log_lines, [text |-> text, detail |-> detail])

\* The handler without its sys.exit(1): the process ends with status 0.
Handler_NoExit(msg) ==
    /\ Log("::error::", msg)
    /\ exit_status' = <<0>>
    /\ pc' = "failed"

\* except Exception as e: log(f"::error::{e}"); sys.exit(1)
Handler(msg) ==
    /\ Log("::error::", msg)
    /\ exit_status' = <<1>>
    /\ pc' = "failed"

\* Lines 107-133 with a complete configuration.
Start ==
    /\ pc = "start"
    /\ ConfigError = <<>>
    /\ Log("Python Tag Action Started..", <<>>)
    /\ pc' = "resolve"
    /\ UNCHANGED <<legacy, fn_vars, sort_vars, env, repo_tags, new_tag, base_tag, version_value,
                   output, lister_calls, creator_calls, exit_status, runs>>

\* Lines 107-131 when one of the three checks raises.
StartConfigError ==
    /\ pc = "start"
    /\ ConfigError # <<>>
    /\ log_lines' = log_lines
                    \o <<[text |-> "Python Tag Action Started..", detail |-> <<>>],
                         [text |-> "::error::", detail |-> ConfigError[1]]>>
    /\ exit_status' = <<1>>
    /\ pc' = "failed"
    /\ UNCHANGED <<legacy, fn_vars, sort_vars, env, repo_tags, new_tag, base_tag, version_value,
                   output, lister_calls, creator_calls, runs>>

\* Lines 135-136 normalising the override as a listed tag is.
ResolveOverride_Normalizes ==
    /\ pc = "resolve"
    /\ user_tag # <<>>
    /\ new_tag' = coerce_tag_name(user_tag)
    /\ base_tag' = coerce_tag_name(user_tag)
    /\ pc' = "decorate"
    /\ UNCHANGED <<legacy, fn_vars, sort_vars, env, repo_tags, version_value, log_lines, output,
                   lister_calls, creator_calls, exit_status, runs>>

\* Lines 135-136: the override is the tag.
ResolveOverride ==
    /\ pc = "resolve"
    /\ user_tag # <<>>
    /\ new_tag' = user_tag
    /\ base_tag' = user_tag
    /\ pc' = "decorate"
    /\ UNCHANGED <<legacy, fn_vars, sort_vars, env, repo_tags, version_value, log_lines, output,
                   lister_calls, creator_calls, exit_status, runs>>

\* Every order in which the repository may list a set of names.
RECURSIVE Orders(_)
Orders(S) ==
    IF S = {} THEN {<<>>}
    ELSE UNION {{<<x>> \o rest : rest \in Orders(S \ {x})} : x \in S}

\* What lines 138-139 give when the repository lists names.
Computed(names) ==
    determine_new_tag(fetch_all_repo_tags(names, fetch_all_tags), default_bump,
                      prerelease_identifier, prerelease_flag, legacy)

\* Lines 138-139: the tags are listed and the next tag is computed.
ResolveComputed ==
    /\ pc = "resolve"
    /\ user_tag = <<>>
    /\ \E r \in {Computed(names) : names \in Orders(repo_tags)} :
        /\ ~r.raised
        /\ new_tag' = r.value
        /\ base_tag' = r.value
    /\ lister_calls' = lister_calls + 1
    /\ pc' = "decorate"
    /\ UNCHANGED <<legacy, fn_vars, sort_vars, env, repo_tags, version_value,
                   log_lines, output, creator_calls, exit_status, runs>>

\* Lines 138-139 when sort_versions_desc or increment_semver raises.
ResolveRaises ==
    /\ pc = "resolve"
    /\ user_tag = <<>>
    /\ \E r \in {Computed(names) : names \in Orders(repo_tags)} :
        /\ r.raised
        /\ Handler(r.msg)
    /\ lister_calls' = lister_calls + 1
    /\ UNCHANGED <<legacy, fn_vars, sort_vars, env, repo_tags, new_tag, base_tag,
                   version_value, output, creator_calls, runs>>

\* Line 138 when gh.get_repo() or repo.get_tags() raises.
ListTagsFails ==
    /\ pc = "resolve"
    /\ user_tag = <<>>
    /\ lister_calls' = lister_calls + 1
    /\ Handler("GithubException")
    /\ UNCHANGED <<legacy, fn_vars, sort_vars, env, repo_tags, new_tag, base_tag, version_value,
                   output, creator_calls, runs>>

\* Lines 141-142
WithSuffix(tag, suffix) ==
    IF suffix # <<>> /\ suffix # S_prerelease
    THEN tag \o <<"-">> \o suffix
    ELSE tag

\* Line 144
VersionOf(tag) == IF startswith(tag, <<"v">>) THEN Tail(tag) ELSE tag

\* Lines 146-148, for the tag and for the version value alike
WithPrefix(value, prefix) ==
    IF prefix # <<>> THEN prefix \o <<"-">> \o value ELSE value

\* Lines 141-148 with line 144 moved before line 141: the version value is
\* taken from the tag without its suffix.
Decoration_VersionBeforeSuffix(tag, suffix, prefix) ==
    [new_tag |-> WithPrefix(WithSuffix(tag, suffix), prefix),
     version_value |-> WithPrefix(VersionOf(tag), prefix)]

\* Lines 141-148: the tag and the version value main() reports for a base tag.
Decoration(tag, suffix, prefix) ==
    [new_tag |-> WithPrefix(WithSuffix(tag, suffix), prefix),
     version_value |-> WithPrefix(VersionOf(WithSuffix(tag, suffix)), prefix)]

\* Lines 141-150
Decorate ==
    /\ pc = "decorate"
    /\ new_tag' = Decoration(new_tag, tag_suffix, tag_prefix).new_tag
    /\ version_value' = Decoration(new_tag, tag_suffix, tag_prefix).version_value
    /\ Log("New tag computed: ", new_tag')
    /\ pc' = "publish"
    /\ UNCHANGED <<legacy, fn_vars, sort_vars, env, repo_tags, base_tag, output, lister_calls,
                   creator_calls, exit_status, runs>>

\* Lines 152-153 creating the reference all the same.
PublishDryRun_StillCreates ==
    /\ pc = "publish"
    /\ is_dry_run
    /\ creator_calls' = Append(creator_calls, [ref |-> RefsTags \o new_tag, sha |-> commit_sha])
    /\ Log("Dry run enabled. Tag not pushed.", <<>>)
    /\ pc' = "output"
    /\ UNCHANGED <<legacy, fn_vars, sort_vars, env, repo_tags, new_tag, base_tag, version_value,
                   output, lister_calls, exit_status, runs>>

\* Lines 152-153
PublishDryRun ==
    /\ pc = "publish"
    /\ is_dry_run
    /\ Log("Dry run enabled. Tag not pushed.", <<>>)
    /\ pc' = "output"
    /\ UNCHANGED <<legacy, fn_vars, sort_vars, env, repo_tags, new_tag, base_tag, version_value,
                   output, lister_calls, creator_calls, exit_status, runs>>

\* len(repository.split('/'))
SlashParts(s) == Cardinality({i \in DOMAIN s : s[i] = "/"}) + 1

\* Line 155 when the repository name does not unpack into owner and repo.
PublishSplitFails ==
    /\ pc = "publish"
    /\ ~is_dry_run
    /\ SlashParts(repository) # 2
    /\ Handler("ValueError: unpack")
    /\ UNCHANGED <<legacy, fn_vars, sort_vars, env, repo_tags, new_tag, base_tag, version_value,
                   output, lister_calls, creator_calls, runs>>

\* The arguments of create_git_ref at line 157.
CreateCall == [ref |-> RefsTags \o new_tag, sha |-> commit_sha]

\* Lines 155-158: the reference is created.
PublishCreate ==
    /\ pc = "publish"
    /\ ~is_dry_run
    /\ SlashParts(repository) = 2
    /\ new_tag \notin repo_tags
    /\ creator_calls' = Append(creator_calls, CreateCall)
    /\ repo_tags' = repo_tags \cup {new_tag}
    /\ Log("Tag created successfully", <<>>)
    /\ pc' = "output"
    /\ UNCHANGED <<legacy, fn_vars, sort_vars, env, new_tag, base_tag, version_value, output,
                   lister_calls, exit_status, runs>>

\* Line 157 when create_git_ref raises: the reference exists already, or the
\* network or the credential fails.
PublishCreateFails ==
    /\ pc = "publish"
    /\ ~is_dry_run
    /\ SlashParts(repository) = 2
    /\ creator_calls' = Append(creator_calls, CreateCall)
    /\ Handler("GithubException")
    /\ UNCHANGED <<legacy, fn_vars, sort_vars, env, repo_tags, new_tag, base_tag, version_value,
                   output, lister_calls, runs>>

\* Lines 161-169
WriteOutputs ==
    /\ pc = "output"
    /\ output' = output \o <<[key |-> "tag", value |-> new_tag],
                             [key |-> "version", value |-> version_value]>>
    /\ Log("Python Tag Action Completed Successfully", <<>>)
    /\ exit_status' = <<0>>
    /\ pc' = "done"
    /\ UNCHANGED <<legacy, fn_vars, sort_vars, env, repo_tags, new_tag, base_tag, version_value,
                   lister_calls, creator_calls, runs>>

\* Line 165 when the output file cannot be opened.
OpenOutputFails ==
    /\ pc = "output"
    /\ Handler("OSError")
    /\ UNCHANGED <<legacy, fn_vars, sort_vars, env, repo_tags, new_tag, base_tag, version_value,
                   output, lister_calls, creator_calls, runs>>

\* One step of main().
MainStep ==
    \/ Start
    \/ StartConfigError
    \/ ResolveOverride
    \/ ResolveComputed
    \/ ResolveRaises
    \/ ListTagsFails
    \/ Decorate
    \/ PublishDryRun
    \/ PublishSplitFails
    \/ PublishCreate
    \/ PublishCreateFails
    \/ WriteOutputs
    \/ OpenOutputFails

\* ------------------------------------------------------------ the inputs

\* Values of INPUT_USER_TAG: unset, a tag, and a tag without "v" in blanks.
UserTags == {None, V999, BLANK20}

\* Values of INPUT_DEFAULT_BUMP: unset (the default, patch), a bump of a
\* number and the prerelease bump.
Bumps == {None, S_minor, S_prerelease}

\* Values of INPUT_PRERELEASEIDENTIFIER: unset (the default, true), and an
\* identifier.
PrereleaseSettings == {None, S_beta}

Suffixes == {None, <<"r", "c">>, S_prerelease}

Prefixes == {None, <<"o", "p", "s">>}

DryRuns == {None, BLANKTRUE}

\* A complete configuration.
Environment(u, b, p, sfx, pfx, dry) ==
    [INPUT_USER_TAG |-> u,
     INPUT_DEFAULT_BUMP |-> b,
     INPUT_TAG_SUFFIX |-> sfx,
     INPUT_TAG_PREFIX |-> pfx,
     INPUT_PRERELEASEIDENTIFIER |-> p,
     INPUT_GITHUB_TOKEN |-> <<"t", "o", "k">>,
     INPUT_FETCH_ALL_TAGS |-> None,
     INPUT_IS_DRY_RUN |-> dry,
     GITHUB_REPOSITORY |-> <<"o", "/", "r">>,
     GITHUB_SHA |-> <<"a", "b", "c">>]

Environments ==
    {Environment(u, b, p, sfx, pfx, dry) :
        u \in UserTags, b \in Bumps, p \in PrereleaseSettings,
        sfx \in Suffixes, pfx \in Prefixes, dry \in DryRuns}

\* The same with one variable unset, empty or otherwise unusual, for the
\* default bump and prerelease setting.
OddEnvironments ==
    UNION {{[e EXCEPT !["INPUT_GITHUB_TOKEN"] = None],
            [e EXCEPT !["INPUT_GITHUB_TOKEN"] = <<>>],
            [e EXCEPT !["GITHUB_REPOSITORY"] = None],
            [e EXCEPT !["GITHUB_SHA"] = None],
            [e EXCEPT !["GITHUB_REPOSITORY"] = <<"o">>],
            [e EXCEPT !["INPUT_FETCH_ALL_TAGS"] = <<"y", "e", "s">>]} :
           e \in {Environment(u, None, None, sfx, None, dry) :
                    u \in UserTags, sfx \in Suffixes, dry \in DryRuns}}

\* The tags a repository may hold when the action runs.
Repositories ==
    {{},
     {V123},
     {V123, V123 \o DASH \o S_beta \o DOT1},
     {V100, V200, V153},
     {V123 \o DASH \o S_prerelease \o DOT1},
     {RefsTags \o Tail(V123) \o <<"-", "4">>, V123, <<"j", "u", "n", "k">>},
     {V999, V123 \o <<"-", "a", "1">>, V123 \o <<"-", "a", "l", "p", "h", "a", ".", "1">>}}

\* The helpers are not applied directly while main() runs, and main() does not
\* run while they are.
FnIdle ==
    /\ fn_pc = "idle"
    /\ raw = None
    /\ rule = None
    /\ policy = None
    /\ normalized = None
    /\ renormalized = None
    /\ incremented = None

SortIdle ==
    /\ raws = <<>>
    /\ tags = <<>>
    /\ sorted_tags = None
    /\ sort_pc = "idle"

\* A run about to begin.
RunBegins ==
    /\ pc = "start"
    /\ new_tag = None
    /\ base_tag = None
    /\ version_value = None
    /\ log_lines = <<>>
    /\ output = <<>>
    /\ lister_calls = 0
    /\ creator_calls = <<>>
    /\ exit_status = <<>>

\* One run of the action, in any environment, on any of the repositories.
Init ==
    /\ env \in Environments \cup OddEnvironments
    /\ legacy \in BOOLEAN
    /\ repo_tags \in Repositories
    /\ RunBegins
    /\ runs = 1
    /\ FnIdle
    /\ SortIdle

Next == MainStep

Spec == Init /\ [][Next]_vars

\* ------------------------------------------------------- successive runs

\* The most runs of the action a behaviour follows.
MaxRuns == 3

\* The workflow runs the action again, in the same environment, on the
\* repository as the earlier runs left it.
NextRun ==
    /\ pc \in {"done", "failed"}
    /\ runs < MaxRuns
    /\ runs' = runs + 1
    /\ pc' = "start"
    /\ new_tag' = None
    /\ base_tag' = None
    /\ version_value' = None
    /\ log_lines' = <<>>
    /\ output' = <<>>
    /\ lister_calls' = 0
    /\ creator_calls' = <<>>
    /\ exit_status' = <<>>
    /\ UNCHANGED <<legacy, fn_vars, sort_vars, env, repo_tags>>

\* Every bump and every prerelease setting, with no override, no decoration
\* and no dry run.
SeqEnvironments ==
    {Environment(None, b, p, None, None, None) :
        b \in {None, S_major, S_minor, S_prerelease, <<"x">>},
        p \in {None, S_False, S_beta, <<>>}}

SeqRepositories == {{}, {V123}, {V100, V200, V153}}

InitSeq ==
    /\ env \in SeqEnvironments
    /\ legacy \in BOOLEAN
    /\ repo_tags \in SeqRepositories
    /\ RunBegins
    /\ runs = 1
    /\ FnIdle
    /\ SortIdle

\* The steps of main() such an environment allows, and the next run.
NextSeq ==
    \/ Start
    \/ ResolveComputed
    \/ ResolveRaises
    \/ ListTagsFails
    \/ Decorate
    \/ PublishCreate
    \/ PublishCreateFails
    \/ WriteOutputs
    \/ OpenOutputFails
    \/ NextRun

SpecSeq == InitSeq /\ [][NextSeq]_vars

\* ------------------------------------------- the helpers applied directly

\* main() is not running.
MainIdle ==
    /\ env = Environment(None, None, None, None, None, None)
    /\ repo_tags = {}
    /\ pc = "idle"
    /\ new_tag = None
    /\ base_tag = None
    /\ version_value = None
    /\ log_lines = <<>>
    /\ output = <<>>
    /\ lister_calls = 0
    /\ creator_calls = <<>>
    /\ exit_status = <<>>
    /\ runs = 0

\* The longest tail of arbitrary characters after a raw tag's numbers.
MaxTail == 2

TailChars == {".", "-", "a", "1"}

\* Every str over TailChars of length at most n.
RECURSIVE StrsUpTo(_)
StrsUpTo(n) ==
    IF n = 0 THEN {<<>>}
    ELSE StrsUpTo(n - 1)
         \cup {Append(t, c) : t \in {u \in StrsUpTo(n - 1) : Len(u) = n - 1},
                              c \in TailChars}

\* What may precede the numbers of a raw tag name.
Leads ==
    {<<>>, <<"v">>, <<"v", "v">>, <<" ">>, RefsTags, RefsTags \o <<"v">>,
     <<"v">> \o RefsTags}

\* The numbers of a raw tag name, well formed or not.
Cores ==
    {Tail(V123), LEADZERO, <<"1", ".", "2">>, <<"1", ".", "x", ".", "3">>}

\* Labels as earlier runs and people write them, and what may follow a label.
NamedTails ==
    {DASH \o S_beta \o DOT1,
     DASH \o S_beta \o <<".", "0", "9">>,
     <<".">> \o S_beta,
     DASH \o S_prerelease \o DOT1,
     DASH \o <<"r", "c", ".", "x">>,
     DASH \o <<"B", "e", "t", "a">>,
     DASH \o <<"p", "o", "s", "t", "1">>,
     <<"+", "b">>,
     <<"-", "a", " ">>}

RawTags ==
    {lead \o core \o tail :
        lead \in Leads, core \in Cores, tail \in StrsUpTo(MaxTail) \cup NamedTails}

\* The values of bump, and of the prerelease identifier and flag.
Rules == {S_major, S_minor, S_patch, S_prerelease, <<"x">>}

Policies ==
    [identifier : {S_beta, S_prerelease, <<"a">>, <<>>}, enabled : BOOLEAN]

InitFn ==
    /\ MainIdle
    /\ SortIdle
    /\ legacy \in BOOLEAN
    /\ fn_pc = "raw"
    /\ raw \in RawTags
    /\ rule = None
    /\ policy = None
    /\ normalized = None
    /\ renormalized = None
    /\ incremented = None

\* coerce_tag_name(raw)
Normalize ==
    /\ fn_pc = "raw"
    /\ normalized' = coerce_tag_name(raw)
    /\ fn_pc' = "normalized"
    /\ UNCHANGED <<legacy, main_vars, sort_vars, raw, rule, policy, renormalized,
                   incremented>>

\* coerce_tag_name of a tag it returned
Renormalize ==
    /\ fn_pc = "normalized"
    /\ normalized # None
    /\ renormalized' = coerce_tag_name(normalized)
    /\ fn_pc' = "renormalized"
    /\ UNCHANGED <<legacy, main_vars, sort_vars, raw, rule, policy, normalized,
                   incremented>>

\* increment_semver of a normalised tag, for any bump and prerelease setting
Increment ==
    /\ fn_pc = "normalized"
    /\ normalized # None
    /\ \E b \in Rules, p \in Policies :
        /\ rule' = b
        /\ policy' = p
        /\ incremented' =
               increment_semver(normalized, b, p.enabled, p.identifier, legacy)
    /\ fn_pc' = "incremented"
    /\ UNCHANGED <<legacy, main_vars, sort_vars, raw, normalized, renormalized>>

NextFn ==
    \/ Normalize
    \/ Renormalize
    \/ Increment

SpecFn == InitFn /\ [][NextFn]_vars

\* The most names a repository lists.
MaxList == 2

\* Names a repository may list: tags of one version and of its neighbours,
\* plain and labelled, and a name that is no version.
ListedNames ==
    {V123,
     <<"v", "1", ".", "2", ".", "4">>,
     RefsTags \o Tail(V123),
     V123 \o DASH \o S_beta \o DOT1,
     V123 \o DASH \o S_beta \o <<".", "2">>,
     V123 \o DASH \o S_prerelease \o DOT1,
     V123 \o <<"-", "4">>,
     V123 \o DASH \o <<"p", "o", "s", "t", "1">>,
     V123 \o <<"-", "x">>,
     <<"j", "u", "n", "k">>}

\* Every sequence over S of length at most n.
RECURSIVE SeqsUpTo(_, _)
SeqsUpTo(S, n) ==
    IF n = 0 THEN {<<>>}
    ELSE SeqsUpTo(S, n - 1)
         \cup {Append(t, x) : t \in {u \in SeqsUpTo(S, n - 1) : Len(u) = n - 1},
                              x \in S}

InitSort ==
    /\ MainIdle
    /\ FnIdle
    /\ legacy \in BOOLEAN
    /\ raws \in SeqsUpTo(ListedNames, MaxList)
    /\ tags = <<>>
    /\ sorted_tags = None
    /\ sort_pc = "listed"

\* fetch_all_repo_tags over the listed names
Fetch ==
    /\ sort_pc = "listed"
    /\ \E fetch_all \in BOOLEAN : tags' = fetch_all_repo_tags(raws, fetch_all)
    /\ sort_pc' = "fetched"
    /\ UNCHANGED <<legacy, main_vars, fn_vars, raws, sorted_tags>>

\* sort_versions_desc of the fetched tags
Sort ==
    /\ sort_pc = "fetched"
    /\ sorted_tags' = sort_versions_desc(tags, legacy)
    /\ sort_pc' = "sorted"
    /\ UNCHANGED <<legacy, main_vars, fn_vars, raws, tags>>

NextSort ==
    \/ Fetch
    \/ Sort

SpecSort == InitSort /\ [][NextSort]_vars

\* ------------------------------------------------------------ properties

\* log() has printed a line with this text.
Logged(text) == \E i \in DOMAIN log_lines : log_lines[i].text = text

\* main() has passed lines 141-148.
Decorated == pc \in {"publish", "output", "done"}

\* The suffix takes effect: it is non-empty and is not "prerelease".
SuffixApplies == tag_suffix # <<>> /\ tag_suffix # S_prerelease

\* A str without one leading "v".
StripOneV(t) == IF t # <<>> /\ t[1] = "v" THEN Tail(t) ELSE t

\* A value under the configured prefix, if any.
Prefixed(value) ==
    IF tag_prefix = <<>> THEN value ELSE tag_prefix \o <<"-">> \o value

C2_FailureWritesNoOutput ==
    /\ pc = "failed" =>
        /\ output = <<>>
        /\ exit_status = <<1>>
        /\ log_lines # <<>>
        /\ log_lines[Len(log_lines)].text = "::error::"
    /\ exit_status = <<1>> => pc = "failed"
    /\ output # <<>> =>
        \/ is_dry_run /\ Logged("Dry run enabled. Tag not pushed.")
        \/ /\ ~is_dry_run
           /\ Logged("Tag created successfully")
           /\ new_tag \in repo_tags

\* A run has failed at the output file after it created the tag.
C2_FailedAfterCreation ==
    /\ pc = "failed"
    /\ Logged("Tag created successfully")
    /\ new_tag \in repo_tags
    /\ output = <<>>

\* C3: with a non-empty override the repository is never asked for its tags,
\* whatever they are, and the base tag is the override as it was given, also
\* when the override is no version.
C3_OverrideIsBaseTag ==
    user_tag # <<>> =>
        /\ lister_calls = 0
        /\ pc \in {"decorate", "publish", "output", "done"} => base_tag = user_tag
        /\ pc = "decorate" => new_tag = user_tag

\* A run with the override "2.0", which is no version, on a repository that
\* has tags, has completed.
C3_OverrideRunDone ==
    /\ pc = "done"
    /\ user_tag = <<"2", ".", "0">>
    /\ repo_tags # {}
    /\ base_tag = <<"2", ".", "0">>

\* C4: a dry run never calls the creator and still writes both output lines
\* when it completes; a run that is no dry run writes output only after it
\* called the creator exactly once, with "refs/tags/" and the tag, and the
\* commit.
C4_DryRunCreatesNothing ==
    /\ is_dry_run => creator_calls = <<>>
    /\ pc = "done" =>
        output = <<[key |-> "tag", value |-> new_tag],
                   [key |-> "version", value |-> version_value]>>
    /\ ~is_dry_run =>
        /\ Len(creator_calls) <= 1
        /\ (pc \in {"output", "done"} \/ output # <<>>) =>
              creator_calls = <<[ref |-> RefsTags \o new_tag, sha |-> commit_sha]>>

\* A dry run has completed with both output lines and no call of the creator.
C4_DryRunDone ==
    /\ pc = "done"
    /\ is_dry_run
    /\ Len(output) = 2
    /\ creator_calls = <<>>

\* The position after the third number of s when s starts with
\* digits "." digits "." digits, and 0 when it does not.
TripleEnd(s) ==
    LET e1 == RunEnd(s, 1, DigitSet)
        e2 == RunEnd(s, e1 + 1, DigitSet)
        e3 == RunEnd(s, e2 + 1, DigitSet)
    IN  IF /\ e1 > 1
           /\ e1 <= Len(s) /\ s[e1] = "."
           /\ e2 > e1 + 1
           /\ e2 <= Len(s) /\ s[e2] = "."
           /\ e3 > e2 + 1
        THEN e3
        ELSE 0

\* s without one leading p.
StripOnce(s, p) == IF startswith(s, p) THEN From(s, Len(p) + 1) ELSE s

\* What the prerelease bump is to give for a normalised version.
PrereleaseBump(current, p) ==
    LET s == Tail(current)
        e2 == RunEnd(s, RunEnd(s, 1, DigitSet) + 1, DigitSet)
        e == TripleEnd(s)
        base == SubSeq(s, 1, e - 1)
        label == From(s, e + 1)
        parts == split(label)
        last == parts[Len(parts)]
    IN  IF e <= Len(s) /\ Contains(label, p.identifier)
        THEN IF isdigit(last)
             THEN <<"v">> \o base \o <<"-">>
                  \o join([parts EXCEPT ![Len(parts)] = str(int(last) + 1)])
             ELSE <<"v">> \o base \o <<"-">> \o label \o <<".", "1">>
        ELSE IF p.enabled
        THEN <<"v">> \o base \o <<"-">> \o p.identifier \o <<".", "1">>
        ELSE <<"v">> \o SubSeq(s, 1, e2) \o str(int(SubSeq(s, e2 + 1, e - 1)) + 1)

\* C5: increment with rule prerelease returns for every normalised version
\* and every policy, and returns the label with its last numeric segment
\* raised by one or with a segment "1" appended when the label contains the
\* identifier, else the identifier and ".1" as the label when the policy is
\* enabled, else the patch bump.
C5_PrereleaseBumpReturns ==
    (fn_pc = "incremented" /\ rule = S_prerelease) =>
        /\ ~incremented.raised
        /\ incremented.value = PrereleaseBump(normalized, policy)

\* A tag is "v", three numbers, and at most a "-" and a label that is not
\* empty and neither starts nor ends with a dot.
WellFormed(t) ==
    /\ t # <<>>
    /\ t[1] = "v"
    /\ LET s == Tail(t)
           e == TripleEnd(s)
           label == From(s, e + 1)
       IN  /\ e > 0
           /\ \/ e = Len(s) + 1
              \/ /\ s[e] = "-"
                 /\ label # <<>>
                 /\ \A i \in DOMAIN label : label[i] \in PreCharSet
                 /\ label[1] # "."
                 /\ label[Len(label)] # "."

\* C8: every tag normalize returns, and every tag increment returns for it,
\* is well formed.
C8_LabelsWellFormed ==
    /\ (fn_pc # "raw" /\ normalized # None) => WellFormed(normalized)
    /\ (fn_pc = "incremented" /\ ~incremented.raised) => WellFormed(incremented.value)

\* C9, as the specification states it: normalising a normalised tag changes
\* nothing, and normalize gives none exactly when the raw name, without one
\* leading "refs/tags/" and one leading "v", does not start with three
\* numbers separated by dots.
C9_NoneIffNoTripleAfterOneV ==
    /\ fn_pc = "renormalized" => renormalized = normalized
    /\ fn_pc # "raw" =>
        (normalized = None <=>
            TripleEnd(StripOnce(StripOnce(raw, RefsTags), <<"v">>)) = 0)

\* C9, as the code has it: normalising a normalised tag changes nothing, and
\* normalize gives none exactly when the raw name, with the blanks around it
\* trimmed and without one leading "refs/tags/" and every leading "v", does
\* not start with three numbers separated by dots.
C9_NoneIffNoTripleAfterEveryV ==
    /\ fn_pc = "renormalized" => renormalized = normalized
    /\ fn_pc # "raw" =>
        (normalized = None <=>
            TripleEnd(lstrip(StripOnce(strip(raw), RefsTags), {"v"})) = 0)

\* "vv01.02.03-a" was normalised to "v1.2.3-a", and that again to itself.
C9_DoubleVRenormalized ==
    /\ fn_pc = "renormalized"
    /\ raw = <<"v", "v">> \o LEADZERO \o <<"-", "a">>
    /\ normalized = V123 \o <<"-", "a">>
    /\ renormalized = normalized

\* How often x occurs in s.
Count(s, x) == Cardinality({i \in DOMAIN s : s[i] = x})

\* C6: sort_versions_desc never raises on normalised tags, gives the same
\* tags in some order, and gives the empty list for the empty list.
C6_SortReturnsPermutation ==
    sort_pc = "sorted" =>
        /\ ~sorted_tags.raised
        /\ Len(sorted_tags.value) = Len(tags)
        /\ \A i \in DOMAIN tags : Count(sorted_tags.value, tags[i]) = Count(tags, tags[i])

\* The three numbers of a normalised tag.
TripleOf(t) == SubSeq(t, 2, TripleEnd(Tail(t)))

\* A normalised tag has a label.
HasLabel(t) == TripleEnd(Tail(t)) <= Len(Tail(t))

\* C7: of two tags with the same three numbers, the one without a label is
\* sorted before the one with a label, whatever the label.
C7_ReleaseBeforePrerelease ==
    (sort_pc = "sorted" /\ ~sorted_tags.raised) =>
        \A i, j \in DOMAIN sorted_tags.value :
            LET a == sorted_tags.value[i]
                b == sorted_tags.value[j]
            IN  (TripleOf(a) = TripleOf(b) /\ ~HasLabel(a) /\ HasLabel(b)) => i < j

\* The tags fetch_all_repo_tags gives for the repository.
ExistingTags == {coerce_tag_name(n) : n \in repo_tags} \ {None}

\* Tag a is strictly above tag b in the order of the sort keys.
RanksAbove(a, b) ==
    /\ key(a, legacy).kind # "InvalidVersion"
    /\ key(b, legacy).kind # "InvalidVersion"
    /\ KeyLess(key(b, legacy), key(a, legacy))

\* C10: with no override, the tag a run computes for a repository that has
\* tags is none of them and ranks strictly above each, in the first run and in
\* every later run on the repository the earlier runs left.
C10_ComputedTagIsNew ==
    (pc = "decorate" /\ user_tag = <<>> /\ ExistingTags # {}) =>
        /\ base_tag \notin ExistingTags
        /\ \A t \in ExistingTags : RanksAbove(base_tag, t)

====
